---- MODULE Spec2Model ----
(***************************************************************************)
(* GTCheck (src/gtcheck/app.py): the review session kept in the Flask      *)
(* session (queue, skip cursor, remaining count, undo slot) and the git    *)
(* repository it drives (HEAD, index, working tree), with one action per   *)
(* request handler: gtcheckinit, gtcheck and gtcheckedit.                  *)
(***************************************************************************)
EXTENDS Integers, Sequences, FiniteSets, TLC

(* ------------------------------ bounds -------------------------------- *)
\* number of ground-truth files of the repository, in repository order
NumFiles == 2
\* stash decisions are offered while fewer than MaxStash files were
\* taken off the reservation total
MaxStash == 1
\* undo is offered while the remaining count is below MaxDifflen
MaxDifflen == 3
\* nested re-entries of gtcheck allowed before the interpreter gives up
RecursionLimit == 5
\* the queue rebuild on its own: cursors 0..MaxSkip, and up to ExtraChanged
\* changed files beyond the MaxSkip + LookAhead a rebuild can keep
MaxSkip == 2
ExtraChanged == 2
\* modifications() on its own: diff texts of up to MaxSegs pieces, each a
\* marker or a stretch of unchanged text
MaxSegs == 3

(* --------------------------- program constants ------------------------ *)
\* session['difflist'][:session['skip']+100]
LookAhead == 100

Files == 1..NumFiles
\* a queue entry None (the placeholder of [None]*skip), and the empty
\* undo_fpath ""
NoPath == 0

(* ------------------------------- texts -------------------------------- *)
\* a text is a sequence of characters
TA == <<"a">>
TB == <<"b">>
TASp == <<"a", " ">>
Empty == <<>>

\* a blob: present or not, with its text
Blob(t) == [ex |-> TRUE, txt |-> t]
Absent == [ex |-> FALSE, txt |-> Empty]

RECURSIVE LStrip(_, _)
\* str.lstrip(chars)
LStrip(t, chars) ==
    IF t # <<>> /\ Head(t) \in chars THEN LStrip(Tail(t), chars) ELSE t

RECURSIVE RStrip(_, _)
RStrip(t, chars) ==
    IF t # <<>> /\ t[Len(t)] \in chars
    THEN RStrip(SubSeq(t, 1, Len(t) - 1), chars) ELSE t

Whitespace == {" ", "\n", "\r", "\t"}
\* str.strip()
Strip(t) == RStrip(LStrip(t, Whitespace), Whitespace)

RECURSIVE NormalizeNewlines(_)
\* str.replace("\r\n", "\n")
NormalizeNewlines(t) ==
    IF Len(t) < 2 THEN t
    ELSE IF t[1] = "\r" /\ t[2] = "\n"
         THEN <<"\n">> \o NormalizeNewlines(SubSeq(t, 3, Len(t)))
         ELSE <<t[1]>> \o NormalizeNewlines(Tail(t))

Min(a, b) == IF a < b THEN a ELSE b


(* ------------------------------- state -------------------------------- *)
VARIABLES
    head,            \* repository: blob of each file at HEAD
    index,           \* repository: blob of each file in the index
    work,            \* repository: blob of each file in the working tree
    ita,             \* files whose index entry is an intent-to-add entry
    emptyEntries,    \* files whose only change is one without blobs
    bare,            \* repository: repo.bare, it has no working tree
    objects,         \* repository: the variants of a merge conflict are
                     \* blobs of its object database
    Dateien_gesamt,  \* session['reservefile']['Dateien_gesamt']
    skip,            \* session['skip']
    difflist,        \* session['difflist']
    difflen,         \* session['difflen']
    modtype,         \* session['modtype']
    modtext,         \* session['modtext']
    fpath,           \* session['fpath'] (and session['fname'])
    fileidx,         \* session['fileidx']
    undo_fpath,      \* session['undo_fpath']
    undo_value,      \* session['undo_value']
    page,            \* the page the reviewer has in front of them
    last,            \* the request handled last: its form data, whether
                     \* files were left, difflen before its decision
    arg,             \* a function of the program called on its own: the
                     \* function and its arguments
    ret              \* ... and what the call returned

\* the review session and the repository
review == <<head, index, work, ita, emptyEntries, bare, objects,
            Dateien_gesamt, skip,
            difflist, difflen, modtype, modtext, fpath, fileidx, undo_fpath,
            undo_value, page, last>>

vars == <<review, arg, ret>>

\* no function is called on its own
NoCall == [fn |-> "none"]
NoReturn == [done |-> FALSE]

\* the state a handler works on: the session, the repository, the number
\* of times the request called repo.git.commit and modifications() and
\* wrote the reservation record so far, whether it wrote the identity to
\* the repository's configuration, what the page shows in place of the
\* diff, the number of times gtcheck called itself, the number of times
\* it wrote a ground-truth file and whether an exception was raised
Cur ==
    [head |-> head, index |-> index, work |-> work, ita |-> ita,
     Dateien_gesamt |-> Dateien_gesamt, skip |-> skip,
     difflist |-> difflist, difflen |-> difflen, modtype |-> modtype,
     modtext |-> modtext, fpath |-> fpath, fileidx |-> fileidx,
     undo_fpath |-> undo_fpath, undo_value |-> undo_value,
     commits |-> 0, parsed |-> 0, diffcolored |-> "none",
     reservations |-> 0, identity |-> FALSE, reentries |-> 0,
     writes |-> 0,
     err |-> FALSE, res |-> "none"]

Raise(s) == [s EXCEPT !.err = TRUE, !.res = "error"]

\* json.dump(reservefile, fout) into reservations/<reponame>.json
WriteReservation(s) ==
    IF s.err THEN s ELSE [s EXCEPT !.reservations = @ + 1]

(* --------------------------- the repository --------------------------- *)
\* repo.index.diff(None): the file differs between index and working tree
Changed(s, f) ==
    /\ s.index[f].ex
    /\ \/ f \in s.ita
       \/ f \in emptyEntries
       \/ s.work[f] # s.index[f]

RECURSIVE SortedSeq(_)
\* the members of a set of files in repository (path) order
SortedSeq(S) ==
    IF S = {} THEN <<>>
    ELSE LET m == CHOOSE x \in S : \A y \in S : x <= y
         IN <<m>> \o SortedSeq(S \ {m})

\* [item.a_path for item in repo.index.diff(None) if ".gt.txt" in item.a_path]
ChangedList(s) == SortedSeq({f \in Files : Changed(s, f)})

\* the files `git diff --cached` reports
Staged(s) == {f \in Files : f \notin s.ita /\ s.index[f] # s.head[f]}

\* repo.git.diff('--cached', '--shortstat').strip().split(" ")[0],
\* as a number: 0 stands for the empty string
Diffhead(s) == Cardinality(Staged(s))

\* repo.git.add(path, u=True)
GitAddU(s, f) ==
    IF s.err THEN s
    ELSE IF f = NoPath THEN Raise(s)
    ELSE IF s.index[f].ex
         THEN [s EXCEPT !.index[f] = s.work[f], !.ita = @ \ {f}]
    ELSE IF s.work[f].ex THEN s
    ELSE Raise(s)

\* repo.git.commit('-m', msg)
GitCommit(s) ==
    IF s.err THEN s
    ELSE IF Staged(s) = {} THEN Raise([s EXCEPT !.commits = @ + 1])
    ELSE [s EXCEPT !.head = [f \in Files |->
                                IF f \in s.ita THEN s.head[f] ELSE s.index[f]],
                   !.commits = @ + 1]

\* repo.git.reset('HEAD', path)
GitResetHead(s, f) ==
    IF s.err THEN s
    ELSE IF f = NoPath THEN Raise(s)
    ELSE [s EXCEPT !.index[f] = s.head[f], !.ita = @ \ {f}]

\* repo.git.checkout('--', path)
GitCheckout(s, f) ==
    IF s.err THEN s
    ELSE IF f = NoPath \/ ~s.index[f].ex \/ f \in s.ita THEN Raise(s)
    ELSE [s EXCEPT !.work[f] = s.index[f]]

\* repo.git.rm('-f', path)
GitRm(s, f) ==
    IF s.err THEN s
    ELSE IF f = NoPath \/ ~s.index[f].ex THEN Raise(s)
    ELSE [s EXCEPT !.index[f] = Absent, !.work[f] = Absent, !.ita = @ \ {f}]

\* with open(path, 'w') as fout: fout.write(text)
WriteFile(s, f, t) ==
    IF s.err THEN s
    ELSE IF f = NoPath THEN Raise(s)
    ELSE [s EXCEPT !.work[f] = Blob(t), !.writes = @ + 1]

(* --------------------------- modifications() -------------------------- *)
\* text[i:i+2] == c1 + c2; offsets count from 0 as in Python
At2(text, i, c1, c2) ==
    i + 2 <= Len(text) /\ text[i + 1] = c1 /\ text[i + 2] = c2

RECURSIVE CloseAt(_, _, _, _)
\* (.*?) followed by the closing delimiter c1 c2: the offset of the first
\* closing delimiter at or after offset i that is reached over characters
\* other than a newline, -1 when there is none
CloseAt(text, i, c1, c2) ==
    IF i + 2 > Len(text) THEN -1
    ELSE IF At2(text, i, c1, c2) THEN i
    ELSE IF text[i + 1] = "\n" THEN -1
    ELSE CloseAt(text, i + 1, c1, c2)

\* a group of a match: None, or the text it matched
None == [some |-> FALSE, txt |-> Empty]
Group(t) == [some |-> TRUE, txt |-> t]

NoMatch == [found |-> FALSE]

RECURSIVE Search(_, _)
\* the leftmost match of r'(\[-(.*?)-\]|{\+(.*?)\+})' at or after offset i:
\* regs[0] as start and end, mod[2] and mod[3] as g2 and g3
Search(text, i) ==
    IF i + 4 > Len(text) THEN NoMatch
    ELSE IF At2(text, i, "[", "-") /\ CloseAt(text, i + 2, "-", "]") # -1
         THEN LET c == CloseAt(text, i + 2, "-", "]")
              IN [found |-> TRUE, start |-> i, end |-> c + 2,
                  g2 |-> Group(SubSeq(text, i + 3, c)), g3 |-> None]
    ELSE IF At2(text, i, "{", "+") /\ CloseAt(text, i + 2, "+", "}") # -1
         THEN LET c == CloseAt(text, i + 2, "+", "}")
              IN [found |-> TRUE, start |-> i, end |-> c + 2,
                  g2 |-> None, g3 |-> Group(SubSeq(text, i + 3, c))]
    ELSE Search(text, i + 1)

RECURSIVE ModsLoopOverwrites(_, _, _, _)
\* ModsLoop that fills the replacement side of the last unit whether or
\* not it is filled already
ModsLoopOverwrites(text, i, mods, last_pos) ==
    LET mod == Search(text, i)
    IN IF ~mod.found THEN mods
       ELSE LET sub == IF mod.g2.some THEN mod.g2.txt ELSE Empty
                add == IF mod.g3.some THEN mod.g3.txt ELSE Empty
            IN IF /\ add # Empty /\ Len(mods) > 0 /\ last_pos = mod.start
               THEN ModsLoopOverwrites(text, mod.end,
                                       [mods EXCEPT ![Len(mods)][2] = add],
                                       last_pos)
               ELSE ModsLoopOverwrites(text, mod.end,
                                       Append(mods, <<sub, add>>), mod.end)

RECURSIVE ModsLoop(_, _, _, _)
\* for mod in re.finditer(...), from offset i on, with the units collected
\* so far and last_pos
ModsLoop(text, i, mods, last_pos) ==
    LET mod == Search(text, i)
    IN IF ~mod.found THEN mods
       ELSE LET sub == IF mod.g2.some THEN mod.g2.txt ELSE Empty
                add == IF mod.g3.some THEN mod.g3.txt ELSE Empty
            IN IF /\ add # Empty /\ Len(mods) > 0 /\ last_pos = mod.start
                  /\ mods[Len(mods)][2] = Empty
               THEN ModsLoop(text, mod.end,
                             [mods EXCEPT ![Len(mods)][2] = add], last_pos)
               ELSE ModsLoop(text, mod.end, Append(mods, <<sub, add>>),
                             mod.end)

\* modifications(difftext): the list of units [original, replacement]
modifications(difftext) == ModsLoop(difftext, 0, <<>>, 1)

(* --------------------------- get_difftext() --------------------------- *)
\* the strings of a merge conflict, each taken as one character of a text
ConflictHead == "<<<<<<< HEAD\n"
ConflictSep == "\n=======\n"
ConflictEnd == "\n>>>>>>>"

\* sep in text
Contains(text, sep) == \E i \in 1..Len(text) : text[i] = sep

RECURSIVE SplitOn(_, _)
\* text.split(sep)
SplitOn(text, sep) ==
    IF ~Contains(text, sep) THEN <<text>>
    ELSE LET i == CHOOSE k \in 1..Len(text) :
                     text[k] = sep /\ \A j \in 1..(k - 1) : text[j] # sep
         IN <<SubSeq(text, 1, i - 1)>>
            \o SplitOn(SubSeq(text, i + 1, Len(text)), sep)

RECURSIVE Join(_)
\* "".join(parts)
Join(parts) == IF parts = <<>> THEN <<>> ELSE Head(parts) \o Join(Tail(parts))

\* what a call returned, or that it raised
Returned(v) == [raised |-> FALSE, val |-> v, warnings |-> 0]
Raised == [raised |-> TRUE, val |-> Empty, warnings |-> 0]

\* git diff <blob> <blob> -p --word-diff of two texts, after the last @@
WordDiff(orig, diff) ==
    IF orig = diff THEN Empty
    ELSE <<"[", "-">> \o orig \o <<"-", "]", "{", "+">> \o diff \o <<"+", "}">>

\* get_gitdifftext(orig, diff, repo): git hash-object names the two texts
\* without storing them, and git diff fails unless both names are objects
\* of the repository
get_gitdifftext(orig, diff, objs) ==
    IF objs THEN Returned(Strip(WordDiff(orig, diff))) ELSE Raised

\* fin.read().split("<<<<<<< HEAD\n")[-1].split("\n>>>>>>>")[0]
\*    .split("\n=======\n")
MergeText(filetext) ==
    LET parts == SplitOn(filetext, ConflictHead)
    IN SplitOn(SplitOn(parts[Len(parts)], ConflictEnd)[1], ConflictSep)

\* get_difftext(origtext, item, folder, repo). item.diff is a text that
\* decodes as UTF-8 or not, file the working-tree file at item.a_path,
\* b_blob_ok whether item.b_blob can be read and decoded
get_difftext(origtext, item, objs) ==
    IF Contains(origtext, ConflictHead)
    THEN IF ~item.file.ex THEN Raised
         ELSE LET mergetext == MergeText(item.file.txt)
              IN IF Len(mergetext) < 2 THEN Raised
                 ELSE get_gitdifftext(mergetext[1], mergetext[2], objs)
    ELSE IF item.utf8
         THEN Returned(Join(Tail(SplitOn(item.diff, "\n"))))
    ELSE IF ~item.b_blob_ok THEN [Returned(Empty) EXCEPT !.warnings = 2]
    ELSE LET g == get_gitdifftext(origtext, item.b_blob, objs)
         IN IF g.raised THEN [Returned(Empty) EXCEPT !.warnings = 2]
            ELSE [g EXCEPT !.warnings = 1]

(* ------------------------------ gtcheck ------------------------------- *)
\* pop_idx('difflist', popidx), popidx counted from 0
pop_idx(s, popidx) ==
    IF Len(s.difflist) > popidx
    THEN [s EXCEPT !.difflist = SubSeq(@, 1, popidx)
                                  \o SubSeq(@, popidx + 2, Len(@))]
    ELSE s

\* repo.index.diff(None, paths=[filename], ...)[0]: the file the diff item
\* is about, NoPath when the diff is empty (the [0] raises IndexError).
\* A None filename is dropped from the git command line, which then
\* diffs the whole repository.
Lookup(s, filename) ==
    IF filename = NoPath
    THEN IF ChangedList(s) = <<>> THEN NoPath ELSE ChangedList(s)[1]
    ELSE IF Changed(s, filename) THEN filename ELSE NoPath

\* not item.a_blob and not item.b_blob
NoBlobs(s, f) == f \in emptyEntries /\ f \notin s.ita /\ s.work[f] = s.index[f]

\* item.a_blob.data_stream.read().decode('utf-8').lstrip(" ")
OrigText(s, f) == LStrip(s.index[f].txt, {" "})

\* item.deleted_file or not item.b_path
DeletedFile(s, f) == ~s.work[f].ex

\* item.new_file
NewFile(s, f) == f \in s.ita

\* the value of session['modtype'] for the item
ModType(s, f) ==
    IF DeletedFile(s, f) THEN "del"
    ELSE IF (OrigText(s, f) = Empty /\ ~DeletedFile(s, f)) \/ NewFile(s, f)
         THEN "new"
    ELSE "mod"

\* modtext of the item: "" for a deleted file, else the working file's
\* text .lstrip(" ")
ModText(s, f) ==
    IF DeletedFile(s, f) THEN Empty ELSE LStrip(s.work[f].txt, {" "})

\* origtext.strip() == modtext.strip()
CleanCopy(s, f) == Strip(OrigText(s, f)) = Strip(ModText(s, f))

\* the diff item of a changed file as get_difftext reads it: its patch,
\* which decodes, and the working-tree file
DiffItem(s, f) ==
    [diff |-> <<"@", "\n">> \o WordDiff(s.index[f].txt, s.work[f].txt)
              \o <<"\n">>,
     utf8 |-> TRUE, file |-> s.work[f], b_blob |-> s.work[f].txt,
     b_blob_ok |-> FALSE]

\* session['skipcc'], read when origtext.strip() == modtext.strip():
\* no handler assigns session['skipcc'] or session['addcc'] and gtcheckinit
\* starts from session.clear(), so the subscript raises KeyError
ReadSkipcc(s) == Raise(s)

\* diffcolored: the coloured diff, or the fixed message of a new or of a
\* deleted file
DiffColored(s, f) ==
    IF DeletedFile(s, f) THEN "deleted-message"
    ELSE IF ModType(s, f) = "new" THEN "new-message"
    ELSE "diff"

\* the rest of the loop body for a file that is presented: diffcolored,
\* mods = modifications(difftext) and the session assignments before
\* render_template
Present(s, f, idx, nextcounter) ==
    [s EXCEPT !.modtype = ModType(s, f), !.modtext = ModText(s, f),
              !.fpath = f, !.fileidx = idx - nextcounter,
              !.diffcolored = DiffColored(s, f),
              !.parsed = @ + 1,
              !.res = "present"]

RECURSIVE ForLoop(_, _, _, _)
\* for fileidx, filename in enumerate(difflist), from iteration j on
\* (idx is the loop's fileidx);
\* slice is the copy session['difflist'][session['skip']:] taken before
\* the loop; res = "exhausted" stands for the loop's else branch
ForLoop(s, slice, j, nextcounter) ==
    IF s.err THEN s
    ELSE IF j > Len(slice) THEN [s EXCEPT !.res = "exhausted"]
    ELSE LET filename == slice[j]
             idx == j - 1
             f == Lookup(s, filename)
         IN IF f = NoPath THEN Raise(s)
            ELSE IF NoBlobs(s, f)
                 THEN ForLoop(pop_idx(s, s.skip + idx), slice, j + 1,
                              nextcounter + 1)
            ELSE IF get_difftext(OrigText(s, f), DiffItem(s, f),
                                 objects).raised
                 THEN Raise(s)
            ELSE IF CleanCopy(s, f) THEN ReadSkipcc(s)
            ELSE Present(s, f, idx, nextcounter)

\* Rebuild without the placeholder queue [None]*skip
RebuildNoPlaceholders(s) ==
    IF s.difflist = <<>> \/ Len(s.difflist) <= s.skip
    THEN LET cl == ChangedList(s)
         IN IF Len(cl) <= s.skip
            THEN [s EXCEPT !.difflist = cl]
            ELSE [s EXCEPT !.difflen = Len(cl),
                           !.difflist = SubSeq(cl, 1,
                                           Min(Len(cl), s.skip + LookAhead))]
    ELSE s

\* RebuildFrom that counts the files it queued
RebuildFromCountsQueued(s, cl) ==
    IF s.difflist = <<>> \/ Len(s.difflist) <= s.skip
    THEN IF Len(cl) <= s.skip
         THEN [s EXCEPT !.difflist = [i \in 1..s.skip |-> NoPath]]
         ELSE [s EXCEPT !.difflen = Min(Len(cl), s.skip + LookAhead),
                        !.difflist = SubSeq(cl, 1,
                                        Min(Len(cl), s.skip + LookAhead))]
    ELSE s

\* the queue rebuild at the head of gtcheck, cl being the list of changed
\* ground-truth paths the repository reports
RebuildFrom(s, cl) ==
    IF s.difflist = <<>> \/ Len(s.difflist) <= s.skip
    THEN IF Len(cl) <= s.skip
         THEN [s EXCEPT !.difflist = [i \in 1..s.skip |-> NoPath]]
         ELSE [s EXCEPT !.difflen = Len(cl),
                        !.difflist = SubSeq(cl, 1,
                                        Min(Len(cl), s.skip + LookAhead))]
    ELSE s

\* the queue rebuild on the handler's repository
Rebuild(s) == RebuildFrom(s, ChangedList(s))

RECURSIVE Gtcheck(_, _)
\* gtcheck(reponame); depth counts the nested re-entries still allowed
Gtcheck(s, depth) ==
    IF s.err THEN s
    ELSE
    LET diffhead == Diffhead(s)
        s1 == Rebuild(s)
        s2 == ForLoop(s1, SubSeq(s1.difflist, s1.skip + 1, Len(s1.difflist)),
                      1, 0)
    IN IF s2.res # "exhausted" THEN s2
       ELSE IF diffhead # 0
            THEN [s2 EXCEPT !.difflen = s2.skip, !.res = "summary"]
       ELSE IF s2.difflist = <<>> THEN [s2 EXCEPT !.res = "nofile"]
       ELSE IF depth = 0 THEN Raise(s2)
       ELSE Gtcheck([s2 EXCEPT !.skip = 0, !.res = "none",
                               !.reentries = @ + 1], depth - 1)

(* ---------------------------- gtcheckedit ----------------------------- *)
\* the early return of gtcheckedit when no file is left:
\* if session['difflen'] - session['skip'] == 0
NoFilesLeft(s, sel) ==
    [(IF sel = "commit" THEN GitCommit(s) ELSE s) EXCEPT !.difflist = <<>>]

\* if data.get('undo', None): ... ; then the undo slot is overwritten
Undo(s, undo) ==
    LET u == IF undo
             THEN [WriteFile(GitResetHead(s, s.undo_fpath),
                             s.undo_fpath, s.undo_value)
                     EXCEPT !.difflen = @ + 1]
             ELSE s
    IN [u EXCEPT !.undo_fpath = s.fpath, !.undo_value = s.modtext]

\* the overwrite of the presented file and its staging
WriteAndAdd(s, text) ==
    LET w == IF NormalizeNewlines(s.modtext) # text \/ s.modtype = "merge"
             THEN WriteFile(s, s.fpath, text) ELSE s
    IN GitAddU(w, s.fpath)

\* DecideCommit that takes the file off difflen at its staging and again
\* after the commit
DecideCommitCountsTwice(s, text) ==
    LET a == IF s.difflen - s.skip # 0
             THEN WriteReservation(WriteAndAdd(s, text)) ELSE s
    IN [GitCommit(a) EXCEPT !.difflist = <<>>, !.difflen = @ - 2]

\* selection == 'commit'
DecideCommit(s, text) ==
    LET a == IF s.difflen - s.skip # 0
             THEN WriteReservation(WriteAndAdd(s, text)) ELSE s
    IN [GitCommit(a) EXCEPT !.difflist = <<>>, !.difflen = @ - 1]

\* selection == 'stash'
DecideStash(s) ==
    LET d == IF s.modtype \in {"new"}
             THEN GitRm(s, s.fpath) ELSE GitCheckout(s, s.fpath)
    IN WriteReservation([d EXCEPT !.Dateien_gesamt = @ - 1])

\* DecideAdd that goes on to commit, as the commit branch does
DecideAddCommits(s, text) ==
    [GitCommit(WriteAndAdd(s, text)) EXCEPT !.difflen = @ - 1]

\* selection == 'add'
DecideAdd(s, text) == [WriteAndAdd(s, text) EXCEPT !.difflen = @ - 1]

\* DecideSkip that falls through to the pop_idx of the other selections
DecideSkipPops(s) ==
    pop_idx([s EXCEPT !.skip = @ + 1], s.skip + s.fileidx)

\* any other selection
DecideSkip(s) == [s EXCEPT !.skip = @ + 1]

\* gtcheckedit up to its call of gtcheck
EditBody(s, sel, undo, txt) ==
    IF s.difflen - s.skip = 0 THEN NoFilesLeft(s, sel)
    ELSE LET text == NormalizeNewlines(txt)
             u == Undo(s, undo)
         IN IF sel = "commit"
            THEN pop_idx(DecideCommit(u, text), u.skip + u.fileidx)
            ELSE IF sel = "stash"
            THEN pop_idx(DecideStash(u), u.skip + u.fileidx)
            ELSE IF sel = "add"
            THEN pop_idx(DecideAdd(u, text), u.skip + u.fileidx)
            ELSE DecideSkip(u)

\* gtcheckedit(reponame)
GtcheckeditResult(s, sel, undo, txt) ==
    Gtcheck(EditBody(s, sel, undo, txt), RecursionLimit)

(* ---------------------------- gtcheckinit ----------------------------- *)
\* repo.is_dirty()
IsDirty(s) == Staged(s) # {} \/ \E f \in Files : Changed(s, f)

\* gtcheckinit up to the assert: the reservation record, the identity
\* written to the repository's configuration, session.clear() and the
\* session's first values
InitSession(s, reserve) ==
    [(IF reserve THEN WriteReservation(s) ELSE s) EXCEPT
          !.identity = TRUE,
          !.Dateien_gesamt = IF reserve
                             THEN Cardinality({f \in Files : s.work[f].ex})
                             ELSE @,
          !.skip = 0, !.difflist = <<>>, !.difflen = 0,
          !.undo_fpath = NoPath, !.undo_value = Empty,
          !.modtype = "none", !.modtext = Empty, !.fpath = NoPath,
          !.fileidx = 0]

\* gtcheckinit up to the test of repo.is_dirty()
InitBody(s, reserve, reset) ==
    LET c == InitSession(s, reserve)
        r == IF reset
             THEN [c EXCEPT !.index = c.head, !.ita = {}] ELSE c
        untracked == {f \in Files : r.work[f].ex /\ ~r.index[f].ex}
    IN IF bare THEN Raise(c)
       ELSE [r EXCEPT
               !.index = [f \in Files |-> IF f \in untracked
                                          THEN Blob(Empty) ELSE r.index[f]],
               !.ita = r.ita \cup untracked]

\* gtcheckinit(reponame)
GtcheckinitResult(s, reserve, reset) ==
    LET b == InitBody(s, reserve, reset)
    IN IF b.err THEN b
       ELSE IF ~IsDirty(b) THEN WriteReservation([b EXCEPT !.res = "index"])
       ELSE Gtcheck(b, RecursionLimit)

(* ------------------------------ requests ------------------------------ *)
\* the end of a request: the repository keeps what the handler did; the
\* session is stored with the response, which a raised exception replaces
\* by the debugger's page (app.run(debug=True))
Respond(r) ==
    /\ head' = r.head
    /\ index' = r.index
    /\ work' = r.work
    /\ ita' = r.ita
    /\ UNCHANGED <<emptyEntries, bare, objects, arg, ret>>
    /\ IF r.err
       THEN UNCHANGED <<Dateien_gesamt, skip, difflist, difflen, modtype,
                        modtext, fpath, fileidx, undo_fpath, undo_value, page>>
       ELSE /\ Dateien_gesamt' = r.Dateien_gesamt
            /\ skip' = r.skip
            /\ difflist' = r.difflist
            /\ difflen' = r.difflen
            /\ modtype' = r.modtype
            /\ modtext' = r.modtext
            /\ fpath' = r.fpath
            /\ fileidx' = r.fileidx
            /\ undo_fpath' = r.undo_fpath
            /\ undo_value' = r.undo_value
            /\ page' = r.res

Selections == {"commit", "add", "stash", "skip"}

\* the texts the reviewer submits: the presented one or an edited one
Submitted == {modtext, TB}

\* POST /gtcheckedit/<reponame>
Gtcheckedit(sel, undo, txt) ==
    /\ page \in {"present", "summary"}
    /\ sel = "stash" => NumFiles - Dateien_gesamt < MaxStash
    /\ undo => difflen < MaxDifflen
    /\ LET r == GtcheckeditResult(Cur, sel, undo, txt)
       IN /\ Respond(r)
          /\ last' = [op |-> "edit", sel |-> sel, undo |-> undo,
                      left |-> difflen - skip # 0,
                      before |-> Undo(Cur, undo).difflen, err |-> r.err]

\* POST /gtcheckinit/<reponame>, sent from the setup page
Gtcheckinit(reserve, reset) ==
    /\ page \in {"setup", "index"}
    /\ LET r == GtcheckinitResult(Cur, reserve, reset)
       IN /\ Respond(r)
          /\ last' = [op |-> "init", sel |-> "none", undo |-> FALSE,
                      left |-> FALSE, before |-> 0, err |-> r.err]

\* GET /gtcheck/<reponame>
GtcheckRequest ==
    /\ page # "setup"
    /\ LET r == Gtcheck(Cur, RecursionLimit)
       IN /\ Respond(r)
          /\ last' = [op |-> "list", sel |-> "none", undo |-> FALSE,
                      left |-> FALSE, before |-> 0, err |-> r.err]

(* ------------------------------- Init --------------------------------- *)
\* the states a ground-truth file can be in when the reviewer starts
Profiles ==
    { \* unchanged
      [head |-> Blob(TA), index |-> Blob(TA), work |-> Blob(TA), empty |-> FALSE],
      \* modified
      [head |-> Blob(TA), index |-> Blob(TA), work |-> Blob(TB), empty |-> FALSE],
      \* changed in whitespace only
      [head |-> Blob(TA), index |-> Blob(TA), work |-> Blob(TASp), empty |-> FALSE],
      \* new and untracked
      [head |-> Absent, index |-> Absent, work |-> Blob(TB), empty |-> FALSE],
      \* changed without blobs on either side
      [head |-> Blob(TA), index |-> Blob(TA), work |-> Blob(TA), empty |-> TRUE],
      \* staged, then modified again
      [head |-> Blob(TA), index |-> Blob(TB), work |-> Blob(TA), empty |-> FALSE] }

\* a repository with a working tree, or a bare one: commits, but no
\* working tree and no index
Init ==
    /\ \E p \in [Files -> Profiles] :
          /\ head = [f \in Files |-> p[f].head]
          /\ \/ /\ bare = FALSE
                /\ index = [f \in Files |-> p[f].index]
                /\ work = [f \in Files |-> p[f].work]
                /\ emptyEntries = {f \in Files : p[f].empty}
             \/ /\ bare = TRUE
                /\ index = [f \in Files |-> Absent]
                /\ work = [f \in Files |-> Absent]
                /\ emptyEntries = {}
    /\ ita = {}
    /\ objects = FALSE
    /\ Dateien_gesamt = NumFiles
    /\ skip = 0
    /\ difflist = <<>>
    /\ difflen = 0
    /\ modtype = "none"
    /\ modtext = Empty
    /\ fpath = NoPath
    /\ fileidx = 0
    /\ undo_fpath = NoPath
    /\ undo_value = Empty
    /\ page = "setup"
    /\ last = [op |-> "none", sel |-> "none", undo |-> FALSE, left |-> FALSE,
               before |-> 0, err |-> FALSE]
    /\ arg = NoCall
    /\ ret = NoReturn

Next ==
    \/ \E reserve \in BOOLEAN, reset \in BOOLEAN : Gtcheckinit(reserve, reset)
    \/ GtcheckRequest
    \/ \E sel \in Selections, undo \in BOOLEAN, txt \in Submitted :
          Gtcheckedit(sel, undo, txt)

Spec == Init /\ [][Next]_vars

(* ----------------------- functions on their own ----------------------- *)
\* no review is going on: a repository without ground-truth changes and
\* the session before any request
NoReview ==
    /\ head = [f \in Files |-> Blob(TA)]
    /\ index = head
    /\ work = head
    /\ ita = {}
    /\ emptyEntries = {}
    /\ bare = FALSE
    /\ objects = FALSE
    /\ Dateien_gesamt = NumFiles
    /\ skip = 0
    /\ difflist = <<>>
    /\ difflen = 0
    /\ modtype = "none"
    /\ modtext = Empty
    /\ fpath = NoPath
    /\ fileidx = 0
    /\ undo_fpath = NoPath
    /\ undo_value = Empty
    /\ page = "setup"
    /\ last = [op |-> "none", sel |-> "none", undo |-> FALSE, left |-> FALSE,
               before |-> 0, err |-> FALSE]

\* the session values a rebuild reads and the changed paths of the
\* repository, 1 .. n in repository order
RebuildCalls ==
    {[fn |-> "rebuild", changed |-> [i \in 1..n |-> i],
      s |-> [skip |-> k, difflist |-> [i \in 1..q |-> i], difflen |-> d]] :
        n \in 0..(MaxSkip + LookAhead + ExtraChanged),
        k \in 0..MaxSkip, q \in 0..(MaxSkip + 1), d \in 0..MaxSkip}

InitRebuild == NoReview /\ arg \in RebuildCalls /\ ret = NoReturn

\* lines 153-159 of gtcheck run on the arguments
CallRebuild ==
    /\ arg.fn = "rebuild"
    /\ ~ret.done
    /\ ret' = [done |-> TRUE, s |-> RebuildFrom(arg.s, arg.changed)]
    /\ UNCHANGED <<review, arg>>

SpecRebuild == InitRebuild /\ [][CallRebuild]_vars

\* the pieces of a word diff: a deletion marker [-...-], an insertion
\* marker {+...+}, both around a text without marker characters that may
\* be empty, or a stretch of unchanged text
Contents == {Empty, TA, TB, <<"-">>}
Segments ==
    {[kind |-> "text", txt |-> <<"x">>]}
    \cup {[kind |-> k, txt |-> c] : k \in {"del", "ins"}, c \in Contents}

SegLists == UNION {[1..n -> Segments] : n \in 0..MaxSegs}

\* the characters of a piece as git writes them
RenderSeg(g) ==
    IF g.kind = "del" THEN <<"[", "-">> \o g.txt \o <<"-", "]">>
    ELSE IF g.kind = "ins" THEN <<"{", "+">> \o g.txt \o <<"+", "}">>
    ELSE g.txt

RECURSIVE Render(_)
Render(segs) ==
    IF segs = <<>> THEN <<>> ELSE RenderSeg(Head(segs)) \o Render(Tail(segs))

ModificationsCalls ==
    {[fn |-> "modifications", segs |-> sg, difftext |-> Render(sg)] :
        sg \in SegLists}

InitModifications ==
    NoReview /\ arg \in ModificationsCalls /\ ret = NoReturn

\* mods = modifications(difftext)
CallModifications ==
    /\ arg.fn = "modifications"
    /\ ~ret.done
    /\ ret' = [done |-> TRUE, mods |-> modifications(arg.difftext)]
    /\ UNCHANGED <<review, arg>>

SpecModifications == InitModifications /\ [][CallModifications]_vars

\* texts with and without the strings of a merge conflict
Conflicted == <<ConflictHead, "a", ConflictSep, "b", ConflictEnd>>
HalfConflicted == <<ConflictHead, "a", ConflictEnd>>

\* the patch of a diff item: the hunk header and the word diff, one line
\* each
Patches ==
    {<<"@", "\n">> \o Render(sg) \o <<"\n">> : sg \in [1..1 -> Segments]}

DifftextCalls ==
    {[fn |-> "get_difftext", origtext |-> o, objects |-> g,
      item |-> [diff |-> d, utf8 |-> u, file |-> w, b_blob |-> TB,
                b_blob_ok |-> b]] :
        o \in {TA, Conflicted},
        w \in {Absent, Blob(TB), Blob(Conflicted), Blob(HalfConflicted)},
        d \in Patches, u \in BOOLEAN, b \in BOOLEAN, g \in BOOLEAN}

InitDifftext == NoReview /\ arg \in DifftextCalls /\ ret = NoReturn

\* difftext = get_difftext(origtext, item, folder, repo)
CallGetDifftext ==
    /\ arg.fn = "get_difftext"
    /\ ~ret.done
    /\ ret' = [done |-> TRUE,
               out |-> get_difftext(arg.origtext, arg.item, arg.objects)]
    /\ UNCHANGED <<review, arg>>

SpecDifftext == InitDifftext /\ [][CallGetDifftext]_vars

(* ------------------- reviews with merge conflicts --------------------- *)
\* the conflict of Conflicted with its variants the other way round
ConflictedB == <<ConflictHead, "b", ConflictSep, "a", ConflictEnd>>

\* the states of a ground-truth file when a merge conflict was committed
ConflictProfiles ==
    { \* modified, no conflict
      [head |-> Blob(TA), index |-> Blob(TA), work |-> Blob(TB)],
      \* conflict committed, the working file holds another conflict
      [head |-> Blob(Conflicted), index |-> Blob(Conflicted),
       work |-> Blob(ConflictedB)],
      \* conflict committed, the working file lost the separator
      [head |-> Blob(Conflicted), index |-> Blob(Conflicted),
       work |-> Blob(HalfConflicted)],
      \* conflict committed and resolved in the working file
      [head |-> Blob(Conflicted), index |-> Blob(Conflicted),
       work |-> Blob(TB)] }

InitConflict ==
    /\ \E p \in [Files -> ConflictProfiles] :
          /\ head = [f \in Files |-> p[f].head]
          /\ index = [f \in Files |-> p[f].index]
          /\ work = [f \in Files |-> p[f].work]
    /\ emptyEntries = {}
    /\ bare = FALSE
    /\ objects \in BOOLEAN
    /\ ita = {}
    /\ Dateien_gesamt = NumFiles
    /\ skip = 0
    /\ difflist = <<>>
    /\ difflen = 0
    /\ modtype = "none"
    /\ modtext = Empty
    /\ fpath = NoPath
    /\ fileidx = 0
    /\ undo_fpath = NoPath
    /\ undo_value = Empty
    /\ page = "setup"
    /\ last = [op |-> "none", sel |-> "none", undo |-> FALSE, left |-> FALSE,
               before |-> 0, err |-> FALSE]
    /\ arg = NoCall
    /\ ret = NoReturn

SpecConflict == InitConflict /\ [][Next]_vars

(* ------------------------------ claims -------------------------------- *)
Range(q) == {q[i] : i \in 1..Len(q)}

RemoveAt(q, i) == SubSeq(q, 1, i - 1) \o SubSeq(q, i + 1, Len(q))

\* the repository after the step
Post == [head |-> head', index |-> index', work |-> work', ita |-> ita']

\* a request of gtcheckedit with the given selection on a presented file
\* while files remain
DecisionStep(sels) ==
    /\ last'.op = "edit"
    /\ last'.sel \in sels
    /\ page = "present"
    /\ difflen - skip # 0

\* C1: at the end of every request the skip cursor is at most the length
\* of the queue
SkipWithinQueue == skip <= Len(difflist)

\* a skip decision has brought the cursor to the end of the queue
SkipReachedQueueEnd ==
    /\ last.op = "edit" /\ last.sel = "skip" /\ last.left /\ ~last.err
    /\ skip >= 1
    /\ skip = Len(difflist)

\* C2: the remaining count is never negative: difflen >= 0 and the
\* remaining-files value difflen - skip is >= 0
RemainingNonNegative == difflen >= 0 /\ difflen - skip >= 0

\* an add or commit decision has brought the remaining-files value to 0
\* with files skipped
RemainingReachedZero ==
    /\ last.op = "edit" /\ last.sel \in {"commit", "add"} /\ last.left
    /\ ~last.err
    /\ skip >= 1
    /\ difflen - skip = 0

WrapsAround(s) ==
    LET s1 == Rebuild(s)
        s2 == ForLoop(s1, SubSeq(s1.difflist, s1.skip + 1, Len(s1.difflist)),
                      1, 0)
    IN s2.res = "exhausted" /\ Diffhead(s) = 0 /\ s2.difflist # <<>>

\* C4: when the pass that follows a skip decision on a file reaches the end
\* of the queue with nothing staged, the queue the next pass iterates still
\* contains that file's path
SkippedFileStaysQueued ==
    [][(/\ DecisionStep({"skip"})
        /\ ~last'.err
        /\ WrapsAround(EditBody(Cur, "skip", last'.undo, modtext)))
       => fpath \in Range(difflist')]_vars

\* C5: a commit or add decision on a presented file F while files remain
\* stages F, decreases difflen by exactly one and removes F from the queue:
\* when the request has completed F is not in the queue and every other
\* pending file that was in the queue is still pending
CommitOrAddRemovesOnlyF ==
    [][DecisionStep({"commit", "add"}) =>
         /\ \A txt \in Submitted :
               LET u == Undo(Cur, last'.undo)
                   m == EditBody(Cur, last'.sel, last'.undo, txt)
               IN ~u.err =>
                     /\ m.index[fpath] = m.work[fpath]
                     /\ m.work[fpath].ex
                     /\ m.difflen = u.difflen - 1
         /\ ~last'.err =>
               /\ fpath \notin Range(difflist')
               /\ \A g \in Files \ {fpath} :
                     (g \in Range(difflist) /\ Changed(Cur, g))
                        => Changed(Post, g)]_vars

StashDecision ==
    [][DecisionStep({"stash"}) =>
         LET u == Undo(Cur, last'.undo)
             m == EditBody(Cur, "stash", last'.undo, modtext)
         IN ~u.err =>
               /\ ~m.err
               /\ IF modtype = "new"
                  THEN ~m.index[fpath].ex /\ ~m.work[fpath].ex
                  ELSE m.work[fpath] = head[fpath]
               /\ m.Dateien_gesamt = Dateien_gesamt - 1
               /\ \E i \in 1..Len(difflist) :
                     difflist[i] = fpath /\ m.difflist = RemoveAt(difflist, i)
               /\ Staged(m) = Staged(u)
               /\ m.head = head
               /\ m.commits = 0]_vars

\* the session and repository once the undo part of a request is through:
\* the request's early return skips it
AfterUndo == IF difflen - skip = 0 THEN Cur ELSE Undo(Cur, TRUE)

\* C8: an undo sent with the request that follows a decision on F unstages
\* F, restores F's content to the snapshot value and brings difflen back to
\* the value it had before that decision
UndoRoundTrip ==
    [][(/\ last.op = "edit" /\ last.left /\ ~last.err
        /\ last'.op = "edit" /\ last'.undo)
       => LET u == AfterUndo
          IN /\ ~u.err
             /\ u.index[undo_fpath] = u.head[undo_fpath]
             /\ u.work[undo_fpath] = Blob(undo_value)
             /\ u.difflen = last.before]_vars

\* C9: a second undo in a row changes no file, no index entry and not the
\* remaining count, and neither does an undo sent while undo_fpath is empty
UndoFailsClosed ==
    [][/\ (/\ last.op = "edit" /\ last.left /\ last.undo /\ ~last.err
           /\ last.sel \notin {"commit", "add"}
           /\ last'.op = "edit" /\ last'.undo)
          => LET u == AfterUndo
             IN /\ u.difflen = difflen
                /\ u.work = work
                /\ u.index = index
                /\ u.ita = ita
       /\ (/\ undo_fpath = NoPath /\ page = "present"
           /\ last'.op = "edit" /\ last'.undo)
          => /\ difflen' = difflen
             /\ work' = work
             /\ index' = index
             /\ ita' = ita
             /\ head' = head]_vars

\* the states gtcheck is entered in by the requests the page allows
HandedStates ==
    (IF page # "setup" THEN {Cur} ELSE {})
    \cup (IF page \in {"present", "summary"}
          THEN {EditBody(Cur, sel, undo, txt) :
                   sel \in Selections, undo \in BOOLEAN, txt \in Submitted}
          ELSE {})
    \cup (IF page \in {"setup", "index"}
          THEN {InitBody(Cur, reserve, reset) :
                   reserve \in BOOLEAN, reset \in BOOLEAN}
          ELSE {})

\* session['difflist'][session['skip']:]
Slice(s) == SubSeq(s.difflist, s.skip + 1, Len(s.difflist))

\* the entry at the cursor is a file whose original and working text are
\* identical after strip
CleanCopyAtCursor(s) ==
    /\ ~s.err
    /\ Slice(s) # <<>>
    /\ LET f == Lookup(s, Slice(s)[1])
       IN f # NoPath /\ ~NoBlobs(s, f) /\ CleanCopy(s, f)

\* C10: the loop iteration on a clean copy (skipCleanCopies on,
\* autoStageCleanCopies off) does not present the file, stages nothing,
\* moves the cursor up by exactly one and leaves the queue as it is
CleanCopySkipped ==
    \A h \in HandedStates :
       LET s == Rebuild(h)
       IN CleanCopyAtCursor(s) =>
             LET one == ForLoop(s, <<Slice(s)[1]>>, 1, 0)
             IN /\ one.res = "exhausted"
                /\ one.skip = s.skip + 1
                /\ one.difflist = s.difflist
                /\ one.index = s.index
                /\ one.ita = s.ita
                /\ one.head = s.head

\* the positions of the slice that open it with diff items without blobs:
\* the entries a pass drops before it presents a file or ends
LeadingNoBlobs(s) ==
    {i \in 1..Len(Slice(s)) :
        \A k \in 1..i : LET f == Lookup(s, Slice(s)[k])
                        IN f # NoPath /\ NoBlobs(s, f)}

\* C11: a listing pass removes from the queue exactly the entries without
\* blobs it meets, each one itself, leaves the skip cursor as it is and goes
\* on with the next entry, for any number of such entries in the pass
NoBlobEntriesDropped ==
    \A h \in HandedStates :
       LET s == Rebuild(h)
           pass == ForLoop(s, Slice(s), 1, 0)
       IN (~s.err /\ ~pass.err) =>
             /\ pass.skip = s.skip
             /\ pass.difflist =
                   SubSeq(s.difflist, 1, s.skip)
                   \o SubSeq(Slice(s), Cardinality(LeadingNoBlobs(s)) + 1,
                             Len(Slice(s)))

\* C12: a rebuild (queue empty or not longer than the cursor) with more
\* changed files than the cursor makes the queue the first skip + 100
\* changed paths in repository order, so that at most 100 entries lie at or
\* after the cursor, and sets difflen to the number of all changed files;
\* with no more changed files than the cursor it leaves difflen as it was
RebuildTruncatesQueueNotCount ==
    (ret.done /\ arg.fn = "rebuild"
       /\ (arg.s.difflist = <<>> \/ Len(arg.s.difflist) <= arg.s.skip)) =>
       IF Len(arg.changed) > arg.s.skip
       THEN /\ ret.s.difflist =
                  SubSeq(arg.changed, 1,
                         Min(Len(arg.changed), arg.s.skip + LookAhead))
            /\ Len(ret.s.difflist) - arg.s.skip <= LookAhead
            /\ ret.s.difflen = Len(arg.changed)
            /\ ret.s.skip = arg.s.skip
       ELSE ret.s.difflen = arg.s.difflen

\* a rebuild has cut the queue off while more changed files were there
RebuildCutQueue ==
    /\ ret.done /\ arg.fn = "rebuild"
    /\ Len(arg.s.difflist) <= arg.s.skip
    /\ arg.s.skip >= 1
    /\ Len(arg.changed) > arg.s.skip + LookAhead
    /\ Len(ret.s.difflist) = arg.s.skip + LookAhead
    /\ ret.s.difflen = Len(arg.changed)

\* C13: a listing that presents a new untracked ground-truth file sets
\* modtype "new", shows the fixed message in place of the diff and has not
\* called modifications()
NewFileNotParsed ==
    \A h \in HandedStates :
       LET r == Gtcheck(h, RecursionLimit)
       IN (r.res = "present" /\ NewFile(r, r.fpath) /\ r.work[r.fpath].ex) =>
             /\ r.modtype = "new"
             /\ r.diffcolored = "new-message"
             /\ r.parsed = 0

\* the pieces of a diff text before its last one
ButLast(segs) == SubSeq(segs, 1, Len(segs) - 1)

\* C14: in every diff text an insertion marker that directly follows a
\* deletion marker makes one unit [deleted, inserted] with it, not two;
\* an insertion marker that follows unchanged text, or a unit whose
\* replacement side is filled, starts a new unit
MergeRule ==
    (ret.done /\ arg.fn = "modifications" /\ Len(arg.segs) >= 2
       /\ arg.segs[Len(arg.segs)].kind = "ins") =>
       LET n == Len(arg.segs)
           ins == arg.segs[n]
           prev == arg.segs[n - 1]
           before == modifications(Render(ButLast(arg.segs)))
       IN /\ prev.kind = "del" =>
               ret.mods = modifications(Render(SubSeq(arg.segs, 1, n - 2)))
                          \o << <<prev.txt, ins.txt>> >>
          /\ (\/ prev.kind = "text"
              \/ (before # <<>> /\ before[Len(before)][2] # Empty)) =>
               ret.mods = before \o << <<Empty, ins.txt>> >>

\* C15: every unit returned for a diff text with well-formed markers has a
\* side that is not empty, markers around empty text included
UnitsNotEmpty ==
    (ret.done /\ arg.fn = "modifications") =>
       \A u \in 1..Len(ret.mods) :
          ret.mods[u][1] # Empty \/ ret.mods[u][2] # Empty

RECURSIVE Concat(_)
\* the texts of a list, one after the other
Concat(texts) ==
    IF texts = <<>> THEN <<>> ELSE Head(texts) \o Concat(Tail(texts))

\* the contents of the markers of one kind, from left to right
Marked(segs, kind) ==
    LET ofKind(g) == g.kind = kind
        picked == SelectSeq(segs, ofKind)
    IN Concat([i \in 1..Len(picked) |-> picked[i].txt])

\* C16: for every diff text with well-formed markers the original sides of
\* the returned units, in list order, spell the contents of the deletion
\* markers from left to right, and the replacement sides those of the
\* insertion markers
MarkedTextKept ==
    (ret.done /\ arg.fn = "modifications") =>
       /\ Concat([u \in 1..Len(ret.mods) |-> ret.mods[u][1]])
             = Marked(arg.segs, "del")
       /\ Concat([u \in 1..Len(ret.mods) |-> ret.mods[u][2]])
             = Marked(arg.segs, "ins")

\* a diff text of MaxSegs pieces in which an insertion directly follows a
\* deletion has been parsed, and a unit has both sides filled
ParsedReplacementAndInsertion ==
    /\ ret.done /\ arg.fn = "modifications"
    /\ Len(arg.segs) = MaxSegs
    /\ \E i \in 1..(Len(arg.segs) - 1) :
          /\ arg.segs[i].kind = "del" /\ arg.segs[i].txt # Empty
          /\ arg.segs[i + 1].kind = "ins" /\ arg.segs[i + 1].txt # Empty
    /\ Len(ret.mods) >= 1
    /\ \E u \in 1..Len(ret.mods) :
          ret.mods[u][1] # Empty /\ ret.mods[u][2] # Empty

\* C17: get_difftext raises in no case: when the patch of the item cannot
\* be decoded it returns the two-way diff of the original text and the
\* working content, when that fails too it returns the empty diff with a
\* warning, and a failure while diffing the variants of a merge conflict
\* does not escape either
ExtractionNeverFails ==
    (ret.done /\ arg.fn = "get_difftext") =>
       /\ ~ret.out.raised
       /\ (~Contains(arg.origtext, ConflictHead) /\ ~arg.item.utf8) =>
             IF arg.item.b_blob_ok /\ arg.objects
             THEN ret.out.val = Strip(WordDiff(arg.origtext, arg.item.b_blob))
             ELSE ret.out.val = Empty /\ ret.out.warnings >= 1

\* C18: gtcheckinit on a bare repository fails before it has done anything:
\* it writes no reservation record and no identity, resets and adds
\* nothing, lists nothing, and no review session exists afterwards
BareStartRejected ==
    [][(bare /\ last'.op = "init") =>
         /\ \A reserve \in BOOLEAN, reset \in BOOLEAN :
               LET r == GtcheckinitResult(Cur, reserve, reset)
               IN /\ r.err
                  /\ r.reservations = 0
                  /\ ~r.identity
                  /\ r.parsed = 0
                  /\ r.head = head /\ r.index = index /\ r.work = work
                  /\ r.ita = ita
         /\ UNCHANGED <<skip, difflist, difflen, Dateien_gesamt, page>>]_vars

\* C19: every call of gtcheck ends with a file page, with the summary of
\* staged files or the no-file page, and has called itself at most as many
\* times as the queue it iterated was long
ListingTerminates ==
    \A h \in HandedStates :
       ~h.err =>
          LET r == Gtcheck(h, RecursionLimit)
          IN /\ r.res \in {"present", "summary", "nofile"}
             /\ r.reentries <= Len(Rebuild(h).difflist)

\* the files a pass has staged
AutoStaged(s, pass) == {g \in Files : pass.index[g] # s.index[g]}

\* C20: a listing pass that meets clean copies (skipCleanCopies and
\* autoStageCleanCopies on) stages each of them and removes exactly their
\* entries: afterwards no auto-staged file is an entry of the queue, and
\* no entry has gone but those of auto-staged files and of diff items
\* without blobs
CleanCopiesAutoStaged ==
    \A h \in HandedStates :
       LET s == Rebuild(h)
           pass == ForLoop(s, Slice(s), 1, 0)
       IN (~s.err /\ CleanCopyAtCursor(s)) =>
             /\ ~pass.err
             /\ Lookup(s, Slice(s)[1]) \in AutoStaged(s, pass)
             /\ Range(pass.difflist) \cap AutoStaged(s, pass) = {}
             /\ \A g \in (Range(s.difflist) \cap Files)
                            \ Range(pass.difflist) :
                   g \in AutoStaged(s, pass) \/ NoBlobs(s, g)

\* C21: a file whose original text holds a merge conflict is presented with
\* modtype "merge" and the second variant of the conflict as its working
\* text, and a commit or add decision on it writes the file even when the
\* submitted text is the presented one; a file of any other kind is written
\* only when the submitted text differs from the presented one
MergeConflictOverwritten ==
    [][/\ \A h \in HandedStates :
             LET r == Gtcheck(h, RecursionLimit)
             IN (r.res = "present"
                   /\ Contains(OrigText(r, r.fpath), ConflictHead)) =>
                   /\ r.modtype = "merge"
                   /\ r.modtext = MergeText(r.work[r.fpath].txt)[2]
       /\ DecisionStep({"commit", "add"}) =>
             \A txt \in Submitted :
                LET u == Undo(Cur, last'.undo)
                    w == WriteAndAdd(u, NormalizeNewlines(txt))
                IN ~u.err =>
                      w.writes - u.writes =
                         (IF modtype = "merge" \/ txt # modtext
                          THEN 1 ELSE 0)]_vars

====
